---- MODULE Spec2Model ----
(***************************************************************************)
(* Model of sinto/fragments.py: assembly of ATAC fragments from aligned    *)
(* reads (updateFragmentDict, filterFragmentDict), duplicate collapsing    *)
(* (collapseFragments, id_lookup) and the parallel driver (fragments,      *)
(* condenseFragList, writeFragments).                                      *)
(*                                                                         *)
(* Python strings are sequences of one-character strings, so that          *)
(* "|".join / split("|") and str(int) are modelled by what they do.        *)
(* Python None is the empty tuple and a present optional value v is <<v>>. *)
(***************************************************************************)
EXTENDS Integers, Sequences, FiniteSets, TLC

VARIABLES cfg, fragment_dict, segment, status, fetched, pc, collapsed,
          fraglist, collapsed_perm, permuted, streams, nproc, completed, task,
          value, first_error, frags, outfile

vars == <<cfg, fragment_dict, segment, status, fetched, pc, collapsed,
          fraglist, collapsed_perm, permuted, streams, nproc, completed, task,
          value, first_error, frags, outfile>>

-----------------------------------------------------------------------------
(* Bounds of the model *)

MaxStream == 2

MaxFrags == 4

MaxProc == 2

NumParts == 3

-----------------------------------------------------------------------------
(* Python values *)

None == <<>>

Some(v) == <<v>>

NoneStr == <<"N", "o", "n", "e">>

chr1 == <<"c", "h", "r", "1">>

chr2 == <<"c", "h", "r", "2">>

gi1 == <<"g", "i", "|", "1">>

AAAA == <<"A", "A", "A", "A">>

BBBB == <<"B", "B", "B", "B">>

AAAA_1 == <<"A", "A", "A", "A", "|", "1">>

DigitChar(d) == <<"0", "1", "2", "3", "4", "5", "6", "7", "8", "9">>[d + 1]

RECURSIVE NatToStr(_)
NatToStr(n) == IF n < 10 THEN <<DigitChar(n)>>
               ELSE NatToStr(n \div 10) \o <<DigitChar(n % 10)>>

IntToStr(n) == IF n < 0 THEN <<"-">> \o NatToStr(0 - n) ELSE NatToStr(n)

StrOfOptInt(x) == IF x = None THEN NoneStr ELSE IntToStr(x[1])

StrOfOptStr(x) == IF x = None THEN NoneStr ELSE x[1]

RECURSIVE Join(_, _)
Join(sep, l) == IF l = <<>> THEN <<>>
                ELSE IF Len(l) = 1 THEN l[1]
                ELSE l[1] \o sep \o Join(sep, Tail(l))

RECURSIVE Split(_, _)
Split(s, sep) ==
    IF \A i \in DOMAIN s : s[i] # sep THEN <<s>>
    ELSE LET k == CHOOSE i \in DOMAIN s :
                      s[i] = sep /\ \A j \in 1..(i - 1) : s[j] # sep
         IN <<SubSeq(s, 1, k - 1)>> \o Split(SubSeq(s, k + 1, Len(s)), sep)

Take(l, n) == SubSeq(l, 1, IF Len(l) < n THEN Len(l) ELSE n)

Range(f) == {f[x] : x \in DOMAIN f}

RECURSIVE SumSeq(_)
SumSeq(l) == IF l = <<>> THEN 0 ELSE l[1] + SumSeq(Tail(l))

RECURSIVE Flatten(_)
Flatten(ll) == IF ll = <<>> THEN <<>> ELSE ll[1] \o Flatten(Tail(ll))

RECURSIVE SelectSeqIdx(_, _)
SelectSeqIdx(l, keep) ==
    IF l = <<>> THEN <<>>
    ELSE SelectSeqIdx(SubSeq(l, 1, Len(l) - 1), keep)
         \o (IF Len(l) \in keep THEN <<l[Len(l)]>> ELSE <<>>)

-----------------------------------------------------------------------------
(* The in-progress mapping: a Python dict, kept in insertion order as a     *)
(* sequence of [key, val] items.                                            *)

Keys(d) == {d[i].key : i \in DOMAIN d}

IndexOf(d, k) == CHOOSE i \in DOMAIN d : d[i].key = k

Get(d, k) == d[IndexOf(d, k)].val

Values(d) == [i \in DOMAIN d |-> d[i].val]

\* Python truthiness of an optional integer and of an optional string
TruthyInt(x) == x # None /\ x[1] # 0

TruthyStr(x) == x # None /\ x[1] # <<>>

\* line 201: all(fragments[key].values())
AllValuesTruthy(v) ==
    /\ v.chrom # <<>>
    /\ TruthyInt(v.start)
    /\ TruthyInt(v.end)
    /\ TruthyStr(v.cell)

-----------------------------------------------------------------------------
(* Barcode extraction *)

RegexStar == "[^:]*"

RegexPlus == "[^:]+"

NonColonPrefix(s) ==
    IF \A i \in DOMAIN s : s[i] # ":" THEN s
    ELSE LET k == CHOOSE i \in DOMAIN s :
                      s[i] = ":" /\ \A j \in 1..(i - 1) : s[j] # ":"
         IN SubSeq(s, 1, k - 1)

\* readname_barcode.match(qname): None when the pattern does not match at
\* the start of the name, otherwise the matched text (re_match.group()).
RegexMatch(regex, name) ==
    IF regex = RegexStar THEN Some(NonColonPrefix(name))
    ELSE IF NonColonPrefix(name) = <<>> THEN None
         ELSE Some(NonColonPrefix(name))

RECURSIVE scan_tags(_, _)
scan_tags(tags, cb) ==
    IF tags = <<>> THEN None
    ELSE LET rest == scan_tags(Tail(tags), cb)
         IN IF rest # None THEN rest
            ELSE IF tags[1][1] = cb THEN Some(tags[1][2]) ELSE None

\* lines 152-156: the barcode of a read, or the AttributeError of
\* re_match.group() on a failed match.
BarcodeError(c, seg) ==
    c.readname_barcode # None
    /\ RegexMatch(c.readname_barcode[1], seg.query_name) = None

cell_barcode(c, seg) ==
    IF c.readname_barcode # None
    THEN RegexMatch(c.readname_barcode[1], seg.query_name)
    ELSE scan_tags(seg.tags, c.cellbarcode)

\* lines 157-170: the three early returns of updateFragmentDict.
Rejected(c, seg) ==
    \/ (c.cells # None /\ cell_barcode(c, seg) # None
        /\ cell_barcode(c, seg)[1] \notin c.cells[1])
    \/ seg.mapping_quality < c.min_mapq
    \/ seg.reference_end = None

ShiftedStartWrong(seg) == seg.reference_start + 4

\* lines 172, 177
ShiftedStart(seg) == seg.reference_start + seg.query_alignment_start + 4

\* line 175
ShiftedEnd(seg) == seg.reference_end[1] - 5

\* lines 179-182 and 190-193
SetCoord(v, seg) ==
    IF seg.is_reverse THEN [v EXCEPT !.end = Some(ShiftedEnd(seg))]
    ELSE [v EXCEPT !.start = Some(ShiftedStart(seg))]

NewEntry(c, seg) ==
    [chrom |-> seg.reference_name, start |-> None, end |-> None,
     cell |-> cell_barcode(c, seg)]

FoldOverwrite(d, c, seg) ==
    IF seg.query_name \in Keys(d)
    THEN [d EXCEPT ![IndexOf(d, seg.query_name)].val =
              SetCoord(NewEntry(c, seg), seg)]
    ELSE Append(d, [key |-> seg.query_name,
                    val |-> SetCoord(NewEntry(c, seg), seg)])

\* lines 178-194: fold an accepted read into the mapping
Fold(d, c, seg) ==
    IF seg.query_name \in Keys(d)
    THEN [d EXCEPT ![IndexOf(d, seg.query_name)].val = SetCoord(@, seg)]
    ELSE Append(d, [key |-> seg.query_name,
                    val |-> SetCoord(NewEntry(c, seg), seg)])

\* the mapping returned by updateFragmentDict when it does not raise
updateFragmentDict(d, c, seg) ==
    IF Rejected(c, seg) THEN d ELSE Fold(d, c, seg)

FilterKeepCoords(d) ==
    SelectSeqIdx(d, {i \in DOMAIN d :
        d[i].val.start # None /\ d[i].val.end # None})

filterFragmentDict(d) ==
    SelectSeqIdx(d, {i \in DOMAIN d : AllValuesTruthy(d[i].val)})

-----------------------------------------------------------------------------
(* collapseFragments and id_lookup *)

Pipe == <<"|">>

\* line 30
fragcoords_with_bc(fl) ==
    [i \in DOMAIN fl |->
        Join(Pipe, <<fl[i].chrom, StrOfOptInt(fl[i].start),
                     StrOfOptInt(fl[i].end), StrOfOptStr(fl[i].cell)>>)]

\* line 31
fragcoords(fl) ==
    [i \in DOMAIN fl |->
        Join(Pipe, <<fl[i].chrom, StrOfOptInt(fl[i].start),
                     StrOfOptInt(fl[i].end)>>)]

\* line 32
cellbarcodes(fl) == [i \in DOMAIN fl |-> fl[i].cell]

\* line 33: Counter(l)
Counter(l) ==
    [k \in Range(l) |-> Cardinality({i \in DOMAIN l : l[i] = k})]

\* lines 76-81: zip(set(l), set(idx)) pairs the distinct items, in the
\* iteration order of a set of strings (which depends on the hash seed),
\* with 0..n-1: any bijection can come out.
id_lookup(l) ==
    {f \in [Range(l) -> 0..(Cardinality(Range(l)) - 1)] :
        \A a, b \in Range(l) : a # b => f[a] # f[b]}

RECURSIVE SumOver(_, _)
SumOver(S, f) ==
    IF S = {} THEN 0
    ELSE LET x == CHOOSE y \in S : TRUE IN f[x] + SumOver(S \ {x}, f)

\* lines 44-45
rowstr(k) == Join(Pipe, Take(Split(k, "|"), 3))

bcstr(k) == Split(k, "|")[4]

Inverse(f, n) == CHOOSE k \in DOMAIN f : f[k] = n

Outcome(e, v) == [err |-> e, val |-> v]

\* line 59: the column of the row's maximum, the lowest one among equals
ArgMax(m, r, ncol) ==
    CHOOSE c \in 0..(ncol - 1) :
        /\ \A c2 \in 0..(ncol - 1) : m[r][c2] <= m[r][c]
        /\ \A c2 \in 0..(c - 1) : m[r][c2] < m[r][c]

\* lines 57, 60
RowSum(m, r, ncol) ==
    SumSeq([c \in 1..ncol |-> m[r][c - 1]])

\* lines 29-73, given the two lookups id_lookup returned
collapseFragments(fl, frag_id_lookup, bc_id_lookup) ==
    LET counts == Counter(fragcoords_with_bc(fl))
        keys == DOMAIN counts
        nrow == Cardinality(DOMAIN frag_id_lookup)
        ncol == Cardinality(DOMAIN bc_id_lookup)
        \* lines 50-54: duplicate (row, col) entries are summed by tocsr()
        mat == [r \in 0..(nrow - 1) |-> [c \in 0..(ncol - 1) |->
                  SumOver({k \in keys :
                              /\ frag_id_lookup[rowstr(k)] = r
                              /\ bc_id_lookup[Some(bcstr(k))] = c},
                          counts)]]
    IN IF \E k \in keys : \/ rowstr(k) \notin DOMAIN frag_id_lookup
                          \/ Some(bcstr(k)) \notin DOMAIN bc_id_lookup
       THEN Outcome("KeyError", <<>>)
       ELSE IF nrow = 0 \/ ncol = 0
       THEN Outcome("ValueError", <<>>)
       ELSE Outcome("",
                [i \in 1..nrow |->
                    [frag |-> Split(Inverse(frag_id_lookup, i - 1), "|"),
                     cell |-> Inverse(bc_id_lookup, ArgMax(mat, i - 1, ncol)),
                     count |-> RowSum(mat, i - 1, ncol)]])

-----------------------------------------------------------------------------
(* Inputs *)

DefaultMinMapq == 30

R1 == <<"A", "A", "A", "A", ":", "r", "1">>

R2 == <<":", "r", "2">>

QNames == {R1, R2}

TagSets == {<<>>, <<<<"CB", AAAA>>>>, <<<<"CB", BBBB>>>>}

Read(q, ref, rs, re, qs, rev, mq, tg) ==
    [query_name |-> q, reference_name |-> ref, reference_start |-> rs,
     reference_end |-> re, query_alignment_start |-> qs, is_reverse |-> rev,
     mapping_quality |-> mq, tags |-> tg]

\* reads handed to updateFragmentDict by a caller
Reads ==
    {Read(q, ref, 100, re, 2, rev, mq, tg) :
        q \in QNames, ref \in {chr1, chr2}, re \in {None, Some(250)},
        rev \in BOOLEAN, mq \in {20, 40}, tg \in TagSets}

\* reads inputBam.fetch yields for the interval of chr1
PartitionReads ==
    {Read(q, chr1, 100, re, 2, rev, mq, tg) :
        q \in QNames, re \in {None, Some(5), Some(250)},
        rev \in BOOLEAN, mq \in {20, 40}, tg \in {<<>>, <<<<"CB", AAAA>>>>}}

Config(rb, cl) ==
    [min_mapq |-> DefaultMinMapq, cellbarcode |-> "CB",
     readname_barcode |-> rb, cells |-> cl]

Configs ==
    {Config(rb, cl) :
        rb \in {None, Some(RegexStar), Some(RegexPlus)},
        cl \in {None, Some({AAAA})}}

NoConfig == Config(None, None)

-----------------------------------------------------------------------------
(* Calls of updateFragmentDict *)

InitUpdate ==
    /\ cfg \in Configs
    /\ fragment_dict = <<>>
    /\ segment = None
    /\ status = "init"
    /\ fetched = <<>>
    /\ pc = "update"
    /\ collapsed = Outcome("", <<>>)
    /\ fraglist = <<>>
    /\ collapsed_perm = Outcome("", <<>>)
    /\ permuted = <<>>
    /\ streams = <<>>
    /\ nproc = 1
    /\ completed = <<>>
    /\ task = <<>>
    /\ value = <<>>
    /\ first_error = ""
    /\ frags = <<>>
    /\ outfile = None

\* lines 123-194: one call of updateFragmentDict on the current mapping
UpdateCall(r) ==
    /\ pc = "update"
    /\ segment' = Some(r)
    /\ IF BarcodeError(cfg, r)
       THEN /\ status' = "AttributeError"
            /\ UNCHANGED fragment_dict
       ELSE /\ status' = IF Rejected(cfg, r) THEN "rejected" ELSE "accepted"
            /\ fragment_dict' = updateFragmentDict(fragment_dict, cfg, r)
    /\ UNCHANGED <<cfg, fetched, pc, collapsed, fraglist, collapsed_perm,
                   permuted, streams, nproc, completed, task, value,
                   first_error, frags, outfile>>

NextUpdate == \E r \in Reads : UpdateCall(r)

SpecUpdate == InitUpdate /\ [][NextUpdate]_vars

-----------------------------------------------------------------------------
(* getFragments on one partition *)

InitGet ==
    /\ cfg \in Configs
    /\ fragment_dict = <<>>
    /\ segment = None
    /\ status = "init"
    /\ fetched = <<>>
    /\ pc = "open"
    /\ collapsed = Outcome("", <<>>)
    /\ fraglist = <<>>
    /\ collapsed_perm = Outcome("", <<>>)
    /\ permuted = <<>>
    /\ streams = <<>>
    /\ nproc = 1
    /\ completed = <<>>
    /\ task = <<>>
    /\ value = <<>>
    /\ first_error = ""
    /\ frags = <<>>
    /\ outfile = None

\* lines 105-108: the module never imports re, so re.compile raises
\* NameError whenever a read-name regex is configured
GetOpen ==
    /\ pc = "open"
    /\ IF cfg.readname_barcode # None
       THEN /\ pc' = "error"
            /\ collapsed' = Outcome("NameError", <<>>)
       ELSE /\ pc' = "fetch"
            /\ UNCHANGED collapsed
    /\ UNCHANGED <<cfg, fragment_dict, segment, status, fetched, fraglist,
                   collapsed_perm, permuted, streams, nproc, completed, task,
                   value, first_error, frags, outfile>>

\* lines 109-117: one iteration of the loop over the fetched reads
GetFetch(r) ==
    /\ pc = "fetch"
    /\ Len(fetched) < MaxStream
    /\ fetched' = Append(fetched, r)
    /\ segment' = Some(r)
    /\ status' = IF Rejected(cfg, r) THEN "rejected" ELSE "accepted"
    /\ fragment_dict' = updateFragmentDict(fragment_dict, cfg, r)
    /\ UNCHANGED <<cfg, pc, collapsed, fraglist, collapsed_perm, permuted,
                   streams, nproc, completed, task, value, first_error, frags,
                   outfile>>

\* line 118, once the read source is exhausted
GetFilter ==
    /\ pc = "fetch"
    /\ pc' = "collapse"
    /\ fragment_dict' = filterFragmentDict(fragment_dict)
    /\ UNCHANGED <<cfg, segment, status, fetched, collapsed, fraglist,
                   collapsed_perm, permuted, streams, nproc, completed, task,
                   value, first_error, frags, outfile>>

\* lines 119-120
GetCollapse ==
    /\ pc = "collapse"
    /\ fraglist' = Values(fragment_dict)
    /\ \E fl \in id_lookup(fragcoords(Values(fragment_dict))),
          bl \in id_lookup(cellbarcodes(Values(fragment_dict))) :
          collapsed' = collapseFragments(Values(fragment_dict), fl, bl)
    /\ pc' = IF collapsed'.err = "" THEN "done" ELSE "error"
    /\ UNCHANGED <<cfg, fragment_dict, segment, status, fetched,
                   collapsed_perm, permuted, streams, nproc, completed, task,
                   value, first_error, frags, outfile>>

NextGet ==
    \/ GetOpen
    \/ \E r \in PartitionReads : GetFetch(r)
    \/ GetFilter
    \/ GetCollapse

SpecGet == InitGet /\ [][NextGet]_vars

-----------------------------------------------------------------------------
(* collapseFragments on a collection of completed fragments *)

Fragment(ch, s, e, c) ==
    [chrom |-> ch, start |-> Some(s), end |-> Some(e), cell |-> Some(c)]

CompletedFragments ==
    {Fragment(chr1, 106, 245, c) : c \in {AAAA, BBBB, AAAA_1}}
    \cup {Fragment(chr1, 106, 300, AAAA), Fragment(gi1, 106, 245, AAAA)}

Collections ==
    UNION {[1..n -> CompletedFragments] : n \in 0..MaxFrags}

Perms(n) ==
    {p \in [1..n -> 1..n] : \A i, j \in 1..n : i # j => p[i] # p[j]}

InitCollapse ==
    /\ cfg = NoConfig
    /\ fragment_dict = <<>>
    /\ segment = None
    /\ status = "init"
    /\ fetched = <<>>
    /\ pc = "collapse"
    /\ collapsed = Outcome("", <<>>)
    /\ fraglist \in Collections
    /\ collapsed_perm = Outcome("", <<>>)
    /\ permuted = <<>>
    /\ streams = <<>>
    /\ nproc = 1
    /\ completed = <<>>
    /\ task = <<>>
    /\ value = <<>>
    /\ first_error = ""
    /\ frags = <<>>
    /\ outfile = None

\* lines 26-73 on the collection as given
CollapseCall ==
    /\ pc = "collapse"
    /\ \E fl \in id_lookup(fragcoords(fraglist)),
          bl \in id_lookup(cellbarcodes(fraglist)) :
          collapsed' = collapseFragments(fraglist, fl, bl)
    /\ pc' = "permute"
    /\ UNCHANGED <<cfg, fragment_dict, segment, status, fetched, fraglist,
                   collapsed_perm, permuted, streams, nproc, completed, task,
                   value, first_error, frags, outfile>>

\* lines 26-73 on a permutation of the same collection
CollapsePermuted ==
    /\ pc = "permute"
    /\ \E p \in Perms(Len(fraglist)) :
          permuted' = [i \in 1..Len(fraglist) |-> fraglist[p[i]]]
    /\ \E fl \in id_lookup(fragcoords(permuted')),
          bl \in id_lookup(cellbarcodes(permuted')) :
          collapsed_perm' = collapseFragments(permuted', fl, bl)
    /\ pc' = "done"
    /\ UNCHANGED <<cfg, fragment_dict, segment, status, fetched, fraglist,
                   collapsed, streams, nproc, completed, task, value,
                   first_error, frags, outfile>>

NextCollapse == CollapseCall \/ CollapsePermuted

SpecCollapse == InitCollapse /\ [][NextCollapse]_vars

-----------------------------------------------------------------------------
(* fragments(): one getFragments task per chromosome on a Pool of nproc     *)
(* processes, gathered by map_async(...).get(), then written               *)

Chrom(i) == <<"c", "h", "r", DigitChar(i)>>

\* line 271: list(chrom.items()), the submission order
Partitions == [i \in 1..NumParts |-> Chrom(i)]

Pair(ch, q, re) ==
    <<Read(q, ch, 100, Some(150), 2, FALSE, 40, <<<<"CB", AAAA>>>>),
      Read(q, ch, 100, Some(re), 2, TRUE, 40, <<<<"CB", AAAA>>>>)>>

\* what the read source may hold for a chromosome: nothing, one pair, or
\* two pairs at different coordinates
StreamsOf(ch) ==
    {<<>>, Pair(ch, R1, 250), Pair(ch, R1, 250) \o Pair(ch, R2, 300)}

RECURSIVE FoldAll(_, _, _)
FoldAll(d, c, reads) ==
    IF reads = <<>> THEN d
    ELSE FoldAll(updateFragmentDict(d, c, reads[1]), c, Tail(reads))

\* lines 105-120: the outcomes getFragments can return for a stream
getFragments(c, reads) ==
    IF c.readname_barcode # None THEN {Outcome("NameError", <<>>)}
    ELSE LET fl == Values(filterFragmentDict(FoldAll(<<>>, c, reads)))
         IN {collapseFragments(fl, a, b) :
                a \in id_lookup(fragcoords(fl)),
                b \in id_lookup(cellbarcodes(fl))}

CondenseReversed(l3) == Flatten(Flatten([i \in DOMAIN l3 |->
    [j \in DOMAIN l3[i] |-> l3[i][Len(l3[i]) + 1 - j]]]))

\* lines 206-215
condenseFragList(l3) == Flatten(Flatten(l3))

\* lines 22-23
OutputLine(rec) ==
    Join(<<"\t">>, rec.frag \o <<StrOfOptStr(rec.cell), IntToStr(rec.count)>>)
    \o <<"\n">>

GetReadyEarly(t) == \E i \in DOMAIN t : t[i] = "done"

\* line 274: res.get() returns or raises once every task has finished
GetReady(t) == \A i \in DOMAIN t : t[i] \in {"done", "failed"}

InitRun ==
    /\ cfg \in {Config(None, None), Config(Some(RegexStar), None)}
    /\ fragment_dict = <<>>
    /\ segment = None
    /\ status = "init"
    /\ fetched = <<>>
    /\ pc = "get"
    /\ collapsed = Outcome("", <<>>)
    /\ fraglist = <<>>
    /\ collapsed_perm = Outcome("", <<>>)
    /\ permuted = <<>>
    /\ streams \in {s \in [1..NumParts -> UNION {StreamsOf(Chrom(i)) :
                                                i \in 1..NumParts}] :
                       \A i \in 1..NumParts : s[i] \in StreamsOf(Chrom(i))}
    /\ nproc \in 1..MaxProc
    /\ completed = <<>>
    /\ task = [i \in 1..NumParts |-> "queued"]
    /\ value = [i \in 1..NumParts |-> <<>>]
    /\ first_error = ""
    /\ frags = <<>>
    /\ outfile = None

\* a pool process takes the next queued task
WorkerTake(i) ==
    /\ task[i] = "queued"
    /\ \A j \in 1..(i - 1) : task[j] # "queued"
    /\ Cardinality({j \in DOMAIN task : task[j] = "running"}) < nproc
    /\ task' = [task EXCEPT ![i] = "running"]
    /\ UNCHANGED <<cfg, fragment_dict, segment, status, fetched, pc,
                   collapsed, fraglist, collapsed_perm, permuted, streams,
                   nproc, completed, value, first_error, frags, outfile>>

\* the task returns its list, or its exception is kept (the first one)
WorkerFinish(i) ==
    /\ task[i] = "running"
    /\ \E o \in getFragments(cfg, streams[i]) :
          IF o.err = ""
          THEN /\ task' = [task EXCEPT ![i] = "done"]
               /\ value' = [value EXCEPT ![i] = o.val]
               /\ UNCHANGED first_error
          ELSE /\ task' = [task EXCEPT ![i] = "failed"]
               /\ first_error' = IF first_error = "" THEN o.err
                                 ELSE first_error
               /\ UNCHANGED value
    /\ completed' = Append(completed, i)
    /\ UNCHANGED <<cfg, fragment_dict, segment, status, fetched, pc,
                   collapsed, fraglist, collapsed_perm, permuted, streams,
                   nproc, frags, outfile>>

\* line 274
GetReturn ==
    /\ pc = "get"
    /\ GetReady(task)
    /\ IF \E i \in DOMAIN task : task[i] = "failed"
       THEN /\ pc' = "failed"
            /\ UNCHANGED frags
       ELSE /\ pc' = "write"
            /\ frags' = condenseFragList(<<value>>)
    /\ UNCHANGED <<cfg, fragment_dict, segment, status, fetched, collapsed,
                   fraglist, collapsed_perm, permuted, streams, nproc,
                   completed, task, value, first_error, outfile>>

\* line 20
WriteOpen ==
    /\ pc = "write"
    /\ pc' = "writing"
    /\ outfile' = Some(<<>>)
    /\ UNCHANGED <<cfg, fragment_dict, segment, status, fetched, collapsed,
                   fraglist, collapsed_perm, permuted, streams, nproc,
                   completed, task, value, first_error, frags>>

\* lines 21-23
WriteLine ==
    /\ pc = "writing"
    /\ Len(outfile[1]) < Len(frags)
    /\ outfile' = Some(Append(outfile[1],
                              OutputLine(frags[Len(outfile[1]) + 1])))
    /\ UNCHANGED <<cfg, fragment_dict, segment, status, fetched, pc,
                   collapsed, fraglist, collapsed_perm, permuted, streams,
                   nproc, completed, task, value, first_error, frags>>

WriteClose ==
    /\ pc = "writing"
    /\ Len(outfile[1]) = Len(frags)
    /\ pc' = "done"
    /\ UNCHANGED <<cfg, fragment_dict, segment, status, fetched, collapsed,
                   fraglist, collapsed_perm, permuted, streams, nproc,
                   completed, task, value, first_error, frags, outfile>>

NextRun ==
    \/ \E i \in 1..NumParts : WorkerTake(i)
    \/ \E i \in 1..NumParts : WorkerFinish(i)
    \/ GetReturn
    \/ WriteOpen
    \/ WriteLine
    \/ WriteClose

SpecRun == InitRun /\ [][NextRun]_vars

-----------------------------------------------------------------------------
(* Claims about the assembly of fragments *)

LastRead == segment[1]

\* C1: a read accepted by updateFragmentDict leaves, immediately
\* afterwards, start = reference_start + query_alignment_start + 4 in the
\* entry of its query name when it is forward and end = reference_end - 5
\* when it is reverse.
C1_ShiftOfAcceptedRead ==
    (pc = "fetch" /\ status = "accepted") =>
        LET e == Get(fragment_dict, LastRead.query_name)
        IN IF LastRead.is_reverse
           THEN e.end = Some(LastRead.reference_end[1] - 5)
           ELSE e.start = Some(LastRead.reference_start
                               + LastRead.query_alignment_start + 4)

\* the two mates of the scenario: forward at ref_start 100 with qstart 2,
\* reverse with ref_end 250, both on chr1 with barcode AAAA and mapq 40
ScenarioPair(a, b) ==
    /\ a.query_name = b.query_name
    /\ a.reference_name = chr1 /\ b.reference_name = chr1
    /\ ~a.is_reverse /\ a.reference_start = 100
    /\ a.query_alignment_start = 2 /\ a.reference_end # None
    /\ b.is_reverse /\ b.reference_end = Some(250)
    /\ a.mapping_quality = 40 /\ b.mapping_quality = 40
    /\ a.tags = <<<<"CB", AAAA>>>> /\ b.tags = <<<<"CB", AAAA>>>>

ScenarioFolded ==
    /\ pc = "fetch"
    /\ Len(fetched) = 2
    /\ \/ ScenarioPair(fetched[1], fetched[2])
       \/ ScenarioPair(fetched[2], fetched[1])

\* C1: the shift rule holds for every accepted read, and the mates of the
\* scenario, folded in either order, assemble to (chr1, 106, 245, AAAA).
C1_Theorem ==
    /\ C1_ShiftOfAcceptedRead
    /\ ScenarioFolded =>
          Values(fragment_dict) =
              <<[chrom |-> chr1, start |-> Some(106), end |-> Some(245),
                 cell |-> Some(AAAA)]>>

C1_Witness ==
    /\ ScenarioFolded
    /\ status = "accepted"
    /\ Get(fragment_dict, LastRead.query_name).start = Some(106)
    /\ Get(fragment_dict, LastRead.query_name).end = Some(245)

\* the Segment Filter as the claim words it
PassesSegmentFilter(r) ==
    /\ r.mapping_quality >= cfg.min_mapq
    /\ \/ cfg.cells = None
       \/ scan_tags(r.tags, cfg.cellbarcode) = None
       \/ scan_tags(r.tags, cfg.cellbarcode)[1] \in cfg.cells[1]
    /\ r.reference_end # None

ReadsOf(q) == {i \in DOMAIN fetched : fetched[i].query_name = q}

PassedOf(q) == {i \in ReadsOf(q) : PassesSegmentFilter(fetched[i])}

ForwardPassed(q) == {i \in PassedOf(q) : ~fetched[i].is_reverse}

ReversePassed(q) == {i \in PassedOf(q) : fetched[i].is_reverse}

Filtered == pc \in {"collapse", "done", "error"}

\* C2 as stated: after the fold and filterFragmentDict, a pair has an
\* entry iff both of its mates passed the Segment Filter and together they
\* populated both start and end.
C2_AsStated ==
    Filtered =>
        \A q \in QNames :
            q \in Keys(fragment_dict) <=>
                /\ ReadsOf(q) # {}
                /\ PassedOf(q) = ReadsOf(q)
                /\ ForwardPassed(q) # {}
                /\ ReversePassed(q) # {}

First(S) == CHOOSE i \in S : \A j \in S : i <= j

Last(S) == CHOOSE i \in S : \A j \in S : j <= i

\* C2, amended: after the fold and filterFragmentDict, a pair has an entry
\* iff a forward and a reverse read of it passed the Segment Filter, the
\* first of its reads that passed carried a non-null, non-empty barcode,
\* and neither assembled coordinate is 0.
C2_Theorem ==
    Filtered =>
        \A q \in QNames :
            q \in Keys(fragment_dict) <=>
                /\ ForwardPassed(q) # {}
                /\ ReversePassed(q) # {}
                /\ LET bc == scan_tags(fetched[First(PassedOf(q))].tags,
                                       cfg.cellbarcode)
                   IN bc # None /\ bc[1] # <<>>
                /\ LET f == fetched[Last(ForwardPassed(q))]
                   IN f.reference_start + f.query_alignment_start + 4 # 0
                /\ fetched[Last(ReversePassed(q))].reference_end[1] - 5 # 0

C2_Witness ==
    /\ pc = "collapse"
    /\ R1 \in Keys(fragment_dict)
    /\ ForwardPassed(R1) # {}
    /\ ReversePassed(R1) # {}

\* C5: when the collection left by filterFragmentDict is empty,
\* collapseFragments, and so getFragments, returns an empty list and does
\* not end in an error.
C5_AsStated ==
    (pc \in {"done", "error"} /\ cfg.readname_barcode = None
        /\ fragment_dict = <<>>) =>
            pc = "done" /\ collapsed = Outcome("", <<>>)

Unresolved(c, r) ==
    c.readname_barcode # None
    /\ RegexMatch(c.readname_barcode[1], r.query_name) \in {None, Some(<<>>)}

\* C6: with a read-name regex configured, a read whose name the regex
\* cannot resolve to a barcode is never folded: it ends in an error, and no
\* entry with a null or empty barcode is ever created or updated.
C6_AsStated ==
    /\ (segment # None /\ Unresolved(cfg, LastRead)) => status # "accepted"
    /\ cfg.readname_barcode # None =>
           \A i \in DOMAIN fragment_dict :
               fragment_dict[i].val.cell \notin {None, Some(<<>>)}

\* C10: folding an accepted read whose query name already has an entry
\* changes only the strand-relevant coordinate of that entry; its chrom and
\* cell, its other coordinate and every other entry stay as they were.
C10_FrameOfUpdate ==
    (status' = "accepted" /\ segment'[1].query_name \in Keys(fragment_dict)) =>
        LET r == segment'[1]
            i == IndexOf(fragment_dict, r.query_name)
        IN /\ Len(fragment_dict') = Len(fragment_dict)
           /\ \A j \in DOMAIN fragment_dict :
                  j # i => fragment_dict'[j] = fragment_dict[j]
           /\ fragment_dict'[i].key = fragment_dict[i].key
           /\ fragment_dict'[i].val.chrom = fragment_dict[i].val.chrom
           /\ fragment_dict'[i].val.cell = fragment_dict[i].val.cell
           /\ IF r.is_reverse
              THEN fragment_dict'[i].val.start = fragment_dict[i].val.start
              ELSE fragment_dict'[i].val.end = fragment_dict[i].val.end

C10_Theorem == [][C10_FrameOfUpdate]_vars

\* a later mate with another barcode and another reference name was folded
\* into the entry of its pair, next to the entry of another pair
C10_Witness ==
    /\ status = "accepted"
    /\ cfg.readname_barcode = None
    /\ Len(fragment_dict) = 2
    /\ LET e == Get(fragment_dict, LastRead.query_name)
       IN /\ e.start # None /\ e.end # None
          /\ e.cell # scan_tags(LastRead.tags, cfg.cellbarcode)
          /\ e.chrom # LastRead.reference_name

-----------------------------------------------------------------------------
(* Claims about collapseFragments *)

Collapsed == pc \in {"permute", "done"}

Coord(f) == <<f.chrom, f.start[1], f.end[1]>>

Coords == {Coord(fraglist[i]) : i \in DOMAIN fraglist}

Support(c) == {i \in DOMAIN fraglist : Coord(fraglist[i]) = c}

SupportOf(c, b) == {i \in Support(c) : fraglist[i].cell = b}

BarcodesAt(c) == {fraglist[i].cell : i \in Support(c)}

Dominant(c) ==
    {b \in BarcodesAt(c) :
        \A b2 \in BarcodesAt(c) :
            Cardinality(SupportOf(c, b2)) <= Cardinality(SupportOf(c, b))}

RecordsAt(out, c) ==
    {i \in DOMAIN out :
        out[i].frag = <<c[1], IntToStr(c[2]), IntToStr(c[3])>>}

\* C3: on a non-empty collection collapseFragments returns exactly one
\* record per distinct (chrom, start, end); its count is the number of
\* input fragments at that coordinate over all barcodes and its cell is a
\* barcode whose count there is maximal.  Two (chr1, 106, 245, AAAA) and one
\* (chr1, 106, 245, BBBB) give the single record (chr1, 106, 245, AAAA, 3).
C3_AsStated ==
    (Collapsed /\ fraglist # <<>>) =>
        /\ collapsed.err = ""
        /\ Len(collapsed.val) = Cardinality(Coords)
        /\ \A c \in Coords :
              \E i \in RecordsAt(collapsed.val, c) :
                  /\ collapsed.val[i].count = Cardinality(Support(c))
                  /\ collapsed.val[i].cell \in Dominant(c)
        /\ (Coords = {<<chr1, 106, 245>>}
            /\ Cardinality(SupportOf(<<chr1, 106, 245>>, Some(AAAA))) = 2
            /\ Cardinality(SupportOf(<<chr1, 106, 245>>, Some(BBBB))) = 1) =>
               collapsed.val =
                   <<[frag |-> <<chr1, IntToStr(106), IntToStr(245)>>,
                      cell |-> Some(AAAA), count |-> 3]>>

CountsOf(out) == [i \in DOMAIN out |-> out[i].count]

\* C4: the counts of the records collapseFragments returns sum to the
\* number of fragments passed in, and every returned count is at least 1.
C4_AsStated ==
    Collapsed =>
        /\ SumSeq(CountsOf(collapsed.val)) = Len(fraglist)
        /\ \A i \in DOMAIN collapsed.val : collapsed.val[i].count >= 1

NoTies == \A c \in Coords : Cardinality(Dominant(c)) = 1

BagOf(l) == [x \in Range(l) |-> Cardinality({i \in DOMAIN l : l[i] = x})]

\* C9: when no coordinate has two barcodes tied for the maximal count,
\* collapseFragments gives the same outcome, as a multiset of
\* (chrom, start, end, cell, count) records, on the collection and on a
\* permutation of it.
C9_AsStated ==
    (pc = "done" /\ NoTies /\ permuted # fraglist) =>
        /\ collapsed_perm.err = collapsed.err
        /\ BagOf(collapsed_perm.val) = BagOf(collapsed.val)

-----------------------------------------------------------------------------
(* Claims about fragments() *)

Gathered == pc \in {"write", "writing", "done"}

PartitionOf(rec) == CHOOSE i \in 1..NumParts : Partitions[i] = rec.frag[1]

RecordsOfPartition(i) ==
    SelectSeqIdx(frags, {k \in DOMAIN frags : PartitionOf(frags[k]) = i})

\* C7: whatever the interleaving and the order in which the workers
\* complete, the final list is the concatenation of the per-partition lists
\* in submission order, each partition's list contiguous and in the order
\* its worker returned it.
C7_Theorem ==
    Gathered =>
        /\ \A k, l \in DOMAIN frags :
              k < l => PartitionOf(frags[k]) <= PartitionOf(frags[l])
        /\ \A i \in 1..NumParts : RecordsOfPartition(i) = value[i]
        /\ Len(frags) = SumSeq([i \in 1..NumParts |-> Len(value[i])])

\* a partition submitted later completed first, and a partition returned
\* two records
C7_Witness ==
    /\ pc = "done"
    /\ completed[1] # 1
    /\ \E i \in 1..NumParts : Len(value[i]) = 2
    /\ Len(frags) > NumParts

\* C8: the output file is written only after every worker has finished
\* successfully: nothing is written while a worker is queued or running,
\* and once a worker has failed the run ends in failure with nothing written.
C8_Theorem ==
    /\ outfile # None => \A i \in DOMAIN task : task[i] = "done"
    /\ (\E i \in DOMAIN task : task[i] = "failed") =>
           /\ outfile = None
           /\ pc \in {"get", "failed"}
    /\ pc = "failed" => (outfile = None /\ frags = <<>>)

\* a run that failed although one partition had returned fragments
C8_Witness ==
    /\ pc = "failed"
    /\ outfile = None
    /\ \E i \in DOMAIN task : task[i] = "done" /\ value[i] # <<>>

====
